---- MODULE Spec2Model ----
(***************************************************************************)
(* Rainfall accounting and wake/sleep cycle of the ESP32 weather station   *)
(* (src/src/main.cpp).                                                      *)
(*                                                                         *)
(* Units: timestamps are seconds, millis is milliseconds, rain amounts are *)
(* hundredths of a millimetre (0.25 mm = 25) so that sums are exact.       *)
(* 32-bit unsigned values are held by their two's-complement               *)
(* representative (a value >= 2^31 is the negative number value - 2^32).   *)
(***************************************************************************)
EXTENDS Integers, Sequences, FiniteSets, TLC

(* ---------------- bounds of the model ---------------- *)

\* capacity of rainHistory; include/config.h:10 sets 288, scaled down here
MAX_RAIN_RECORDS == 2
\* wake-ups from deep sleep explored: enough rain wakes to overflow the log
MaxWakes == MAX_RAIN_RECORDS + 1
\* number of resets (ESP.restart) explored
MaxRestarts == 1
\* changes of the WiFi link while a cycle runs, explored per run
MaxWiFiChanges == 1

(* ---------------- program constants ---------------- *)

HOUR_MILLIS == 3600000
DAY_MILLIS == 86400000
NTP_SYNC_INTERVAL == 3600000
MAX_RUNTIME_MS == 30000
WIFI_TIMEOUT == 20000
NTP_TIMEOUT == 10000
NTP_REFERENCE == 1609459200
STARTUP_DELAY == 1000
SENSOR_RETRY_DELAY == 2000
SENSOR_ATTEMPTS == 3
DEFAULT_DEEP_SLEEP_TIME_MINUTES == 5
DEFAULT_RAIN_MM_PER_TIP == 25
uS_TO_MIN_FACTOR == 60000000

TIMER_WAKEUP == 1
EXTERNAL_WAKEUP == 2
BUTTON_WAKEUP == 3

(* ---------------- environment ---------------- *)

\* Unix time of the first power-on
EpochStart == 1700000000
\* wake-to-wake distances the environment may choose (seconds)
WakeGaps == {15300}
\* calibration factor and sleep interval (minutes) of the stored configuration
RainCalibrations == {DEFAULT_RAIN_MM_PER_TIP}
SleepIntervals == {255}
WakeCauses == {"EXT0", "EXT1", "TIMER"}
\* WiFi association times (ms) and SNTP answer times (ms) the network may take
ConnectDelays == {0, WIFI_TIMEOUT - 1000}
ReplyDelays == {4000}
\* how long a configuration-portal session lasts (ms): CONFIG_PORTAL_TIMEOUT
PortalDurations == {180000}

VARIABLES
  build,              \* compile-time choices: USE_CONFIG_PORTAL, width of time_t
  config,             \* WeatherStationConfig fields used by the core
  pc,                 \* position of setup()
  utc,                \* true Unix time
  millisNow,          \* millis(): ms since this boot or wake
  clockSet,           \* system clock has been set by SNTP (time(nullptr) = utc)
  wifiConnected,      \* WiFi.status() == WL_CONNECTED
  wakeCause,          \* esp_sleep_get_wakeup_cause()
  rainCounter, isFirstRun, needsConfiguration, lastResetTime, lastNTPSync,
  rainHistory, rainHistoryCount, totalRainfall, wakeupReason,   \* RTC_DATA_ATTR
  startTime, rainLastHour, rainLast24Hours,                     \* plain globals
  armed,              \* wake sources enabled by setupDeepSleep in this cycle
  hist                \* history variables used only by the properties

vars == <<build, config, pc, utc, millisNow, clockSet, wifiConnected, wakeCause,
          rainCounter, isFirstRun, needsConfiguration, lastResetTime, lastNTPSync,
          rainHistory, rainHistoryCount, totalRainfall, wakeupReason,
          startTime, rainLastHour, rainLast24Hours, armed, hist>>


(* ---------------- integer widths ---------------- *)

\* a >= b for two 32-bit unsigned values given by their two's-complement representatives
UnsignedGE(a, b) ==
  IF (a < 0) = (b < 0) THEN a >= b ELSE a < 0

\* rainHistory[i].timestamp >= currentTime - window, as the build evaluates it.
\* 32-bit time_t (long): currentTime - 86400UL is computed and compared as unsigned
\* long, so a negative difference wraps to a value near 2^32.
\* 64-bit time_t: the subtraction and the comparison are signed.
TimestampInWindow(ts, currentTime, window, bits) ==
  IF bits = 32 THEN UnsignedGE(ts, currentTime - window)
  ELSE ts >= currentTime - window

(* ---------------- time source ---------------- *)

\* time(nullptr): the SNTP-set clock, or seconds since power-on before the first sync
SystemTime(cs, t) == IF cs THEN t ELSE t - EpochStart

\* syncTimeWithNTP(): the new lastNTPSync, whether the clock is set, and the ms spent.
\* reply: an SNTP answer arrives within the timeout, after delay ms.
\* outcome: "nowifi" and "recent" are the two early returns; "assumed": configTime()
\* was called and the wait loop ended at once because the clock already read a date
\* after the reference; "synced": the answer set the clock; "timeout": none came.
SyncTimeWithNTP(wifi, lns, cs, t, reply, delay) ==
  LET now == SystemTime(cs, t)
      same == [lastNTPSync |-> lns, clockSet |-> cs, waited |-> 0]
  IN  IF ~wifi THEN same @@ [outcome |-> "nowifi"]
      ELSE IF lns > 0 /\ now > lns /\ now - lns < NTP_SYNC_INTERVAL \div 1000
             THEN same @@ [outcome |-> "recent"]
      ELSE IF now >= NTP_REFERENCE
             THEN [lastNTPSync |-> now, clockSet |-> cs, waited |-> 0,
                   outcome |-> "assumed"]
      ELSE IF reply
             THEN [lastNTPSync |-> t + delay \div 1000, clockSet |-> TRUE, waited |-> delay,
                   outcome |-> "synced"]
      ELSE [lastNTPSync |-> lns, clockSet |-> cs, waited |-> NTP_TIMEOUT,
            outcome |-> "timeout"]

\* 1 when the call reached configTime(), i.e. made a network time-sync attempt
Attempts(outcome) == IF outcome \in {"assumed", "synced", "timeout"} THEN 1 ELSE 0

\* the outcome two successive calls leave behind
LastOutcome(o1, o2) == IF o2 = "none" THEN o1 ELSE o2

\* C19: a faulty getLocalTime that calls configTime() on every call
GetLocalTimeAlwaysSyncs(wifi, lns, cs, t) ==
  LET now == SystemTime(cs, t)
  IN  [time |-> now,
       lastNTPSync |-> IF wifi /\ now >= NTP_REFERENCE THEN now ELSE lns,
       waited |-> 0,
       outcome |-> IF wifi THEN "assumed" ELSE "nowifi"]

\* getLocalTime(): may resynchronise first, then returns time(nullptr)
GetLocalTime(wifi, lns, cs, t) ==
  LET s == IF wifi /\ (lns = 0 \/ SystemTime(cs, t) - lns >= NTP_SYNC_INTERVAL \div 1000)
             THEN SyncTimeWithNTP(wifi, lns, cs, t, FALSE, 0)
             ELSE [lastNTPSync |-> lns, clockSet |-> cs, waited |-> 0, outcome |-> "none"]
  IN  [time |-> SystemTime(s.clockSet, t + s.waited \div 1000),
       lastNTPSync |-> s.lastNTPSync, waited |-> s.waited, outcome |-> s.outcome]

\* the clock the rain functions read: "ntp" (getLocalTime) or "millis" (millis()/1000)
ClockRegime(wifi, lns) == IF wifi /\ lns > 0 THEN "ntp" ELSE "millis"

\* currentTime as addRainRecord, getRainLastHour, getRainLast24Hours and
\* manageRainHistory compute it, with the lastNTPSync the call leaves behind
CurrentTime(wifi, lns, cs, t, ms) ==
  IF wifi /\ lns > 0
    THEN LET g == GetLocalTime(wifi, lns, cs, t)
         IN  [time |-> g.time, lastNTPSync |-> g.lastNTPSync, outcome |-> g.outcome]
    ELSE [time |-> ms \div 1000, lastNTPSync |-> lns, outcome |-> "none"]

\* the surrogate reading (millis() / 1000) a call of CurrentTime returned, or -1 when
\* the call read the synchronised clock
SurrogateRead(wifi, lns, ms) == IF wifi /\ lns > 0 THEN -1 ELSE ms \div 1000

(* ---------------- rain log ---------------- *)

Indices == 0 .. (MAX_RAIN_RECORDS - 1)
EmptyRecord == [timestamp |-> 0, amount |-> 0, regime |-> "none"]
EmptyHistory == [i \in Indices |-> EmptyRecord]

\* C6: a faulty shift that leaves the oldest record in place
ShiftLoopKeepsOldest(h, i, n) == h

\* for (i = 0; i < n - 1; i++) h[i] = h[i + 1];
RECURSIVE ShiftLoop(_, _, _)
ShiftLoop(h, i, n) ==
  IF i < n - 1 THEN ShiftLoop([h EXCEPT ![i] = h[i + 1]], i + 1, n) ELSE h

\* C1: a faulty index that forgets rainHistoryCount-- after the shift
WriteIndexNoRoom(count) == count

\* the index addRainRecord writes after making room
WriteIndex(count) ==
  IF count >= MAX_RAIN_RECORDS THEN count - 1 ELSE count

\* C14: a faulty addRainRecord that rejects only negative amounts
AddRainRecordAcceptsZero(amount, h, count, total, wifi, lns, cs, t, ms, lrt) ==
  IF amount < 0
    THEN [rainHistory |-> h, rainHistoryCount |-> count, totalRainfall |-> total,
          lastNTPSync |-> lns, lastResetTime |-> lrt, accepted |-> FALSE, index |-> -1,
          shifted |-> FALSE, outcome |-> "none"]
    ELSE
      LET cur == CurrentTime(wifi, lns, cs, t, ms)
          full == count >= MAX_RAIN_RECORDS
          h1 == IF full THEN ShiftLoop(h, 0, count) ELSE h
          k == WriteIndex(count)
          rec == [timestamp |-> cur.time, amount |-> amount,
                  regime |-> ClockRegime(wifi, lns)]
      IN  [rainHistory |-> [h1 EXCEPT ![k] = rec],
           rainHistoryCount |-> k + 1,
           totalRainfall |-> total + amount,
           lastNTPSync |-> cur.lastNTPSync, lastResetTime |-> lrt,
           accepted |-> TRUE, index |-> k, shifted |-> full, outcome |-> cur.outcome]

\* C23: a faulty addRainRecord that never adds the amount to the total
AddRainRecordSkipsTotal(amount, h, count, total, wifi, lns, cs, t, ms, lrt) ==
  IF amount <= 0
    THEN [rainHistory |-> h, rainHistoryCount |-> count, totalRainfall |-> total,
          lastNTPSync |-> lns, lastResetTime |-> lrt, accepted |-> FALSE, index |-> -1,
          shifted |-> FALSE, outcome |-> "none"]
    ELSE
      LET cur == CurrentTime(wifi, lns, cs, t, ms)
          full == count >= MAX_RAIN_RECORDS
          h1 == IF full THEN ShiftLoop(h, 0, count) ELSE h
          k == WriteIndex(count)
          rec == [timestamp |-> cur.time, amount |-> amount,
                  regime |-> ClockRegime(wifi, lns)]
      IN  [rainHistory |-> [h1 EXCEPT ![k] = rec],
           rainHistoryCount |-> k + 1,
           totalRainfall |-> total,
           lastNTPSync |-> cur.lastNTPSync, lastResetTime |-> lrt,
           accepted |-> TRUE, index |-> k, shifted |-> full, outcome |-> cur.outcome]

\* C2: a faulty addRainRecord that takes the evicted amount off the total
AddRainRecordForgetsEvicted(amount, h, count, total, wifi, lns, cs, t, ms, lrt) ==
  IF amount <= 0
    THEN [rainHistory |-> h, rainHistoryCount |-> count, totalRainfall |-> total,
          lastNTPSync |-> lns, lastResetTime |-> lrt, accepted |-> FALSE, index |-> -1,
          shifted |-> FALSE, outcome |-> "none"]
    ELSE
      LET cur == CurrentTime(wifi, lns, cs, t, ms)
          full == count >= MAX_RAIN_RECORDS
          h1 == IF full THEN ShiftLoop(h, 0, count) ELSE h
          k == WriteIndex(count)
          rec == [timestamp |-> cur.time, amount |-> amount,
                  regime |-> ClockRegime(wifi, lns)]
      IN  [rainHistory |-> [h1 EXCEPT ![k] = rec],
           rainHistoryCount |-> k + 1,
           totalRainfall |-> total + amount - (IF full THEN h[0].amount ELSE 0),
           lastNTPSync |-> cur.lastNTPSync, lastResetTime |-> lrt,
           accepted |-> TRUE, index |-> k, shifted |-> full, outcome |-> cur.outcome]

\* addRainRecord(amount): the log, count, total and RTC markers it leaves
AddRainRecord(amount, h, count, total, wifi, lns, cs, t, ms, lrt) ==
  IF amount <= 0
    THEN [rainHistory |-> h, rainHistoryCount |-> count, totalRainfall |-> total,
          lastNTPSync |-> lns, lastResetTime |-> lrt, accepted |-> FALSE, index |-> -1,
          shifted |-> FALSE, outcome |-> "none"]
    ELSE
      LET cur == CurrentTime(wifi, lns, cs, t, ms)
          lrt2 == IF ~(wifi /\ lns > 0) /\ lrt = 0 THEN cur.time ELSE lrt
          h1 == IF count >= MAX_RAIN_RECORDS THEN ShiftLoop(h, 0, count) ELSE h
          k == WriteIndex(count)
          rec == [timestamp |-> cur.time, amount |-> amount,
                  regime |-> ClockRegime(wifi, lns)]
      IN  [rainHistory |-> IF k \in Indices THEN [h1 EXCEPT ![k] = rec] ELSE h1,
           rainHistoryCount |-> k + 1, totalRainfall |-> total + amount,
           lastNTPSync |-> cur.lastNTPSync, lastResetTime |-> lrt2,
           accepted |-> TRUE, index |-> k, shifted |-> count >= MAX_RAIN_RECORDS,
           outcome |-> cur.outcome]

\* the scan of getRainLastHour / getRainLast24Hours
RECURSIVE SumLoop(_, _, _, _, _, _, _)
SumLoop(h, i, n, currentTime, window, bits, acc) ==
  IF i < n
    THEN SumLoop(h, i + 1, n, currentTime, window, bits,
                 IF TimestampInWindow(h[i].timestamp, currentTime, window, bits)
                   THEN acc + h[i].amount ELSE acc)
    ELSE acc

GetRainLastHour(h, count, currentTime, bits) ==
  SumLoop(h, 0, count, currentTime, HOUR_MILLIS \div 1000, bits, 0)

GetRainLast24Hours(h, count, currentTime, bits) ==
  SumLoop(h, 0, count, currentTime, DAY_MILLIS \div 1000, bits, 0)

\* the compaction loop of manageRainHistory
RECURSIVE CompactLoop(_, _, _, _, _, _)
CompactLoop(h, i, recordsToKeep, n, currentTime, bits) ==
  IF i < n
    THEN IF TimestampInWindow(h[i].timestamp, currentTime, DAY_MILLIS \div 1000, bits)
           THEN CompactLoop(IF i > recordsToKeep THEN [h EXCEPT ![recordsToKeep] = h[i]] ELSE h,
                            i + 1, recordsToKeep + 1, n, currentTime, bits)
           ELSE CompactLoop(h, i + 1, recordsToKeep, n, currentTime, bits)
    ELSE [rainHistory |-> h, rainHistoryCount |-> recordsToKeep]

ManageRainHistory(h, count, currentTime, bits) ==
  CompactLoop(h, 0, 0, count, currentTime, bits)

(* ---------------- the wake cycle: setup() ---------------- *)

\* RTC_DATA_ATTR initialisers, loaded on every reset that is not a deep-sleep wake
RtcDefaults ==
  /\ rainCounter' = 0
  /\ isFirstRun' = TRUE
  /\ needsConfiguration' = FALSE
  /\ lastResetTime' = 0
  /\ lastNTPSync' = 0
  /\ rainHistory' = EmptyHistory
  /\ rainHistoryCount' = 0
  /\ totalRainfall' = 0
  /\ wakeupReason' = 0

RtcUnchanged ==
  UNCHANGED <<rainCounter, isFirstRun, needsConfiguration, lastResetTime, lastNTPSync,
              rainHistory, rainHistoryCount, totalRainfall, wakeupReason>>

LogUnchanged ==
  UNCHANGED <<rainHistory, rainHistoryCount, totalRainfall, lastResetTime>>

\* the per-cycle history counters at the start of a program run
NewCycle(h) ==
  [h EXCEPT !.tips = 0, !.appends = 0, !.evictions = 0, !.transmissions = 0,
            !.shifted = FALSE, !.removedByAge = 0,
            !.lastIndex = -1, !.lastAmount = 0, !.lastTimestamp = 0, !.lastNow = 0,
            !.syncAttempts = 0, !.syncOutcome = "none", !.overBudget = FALSE,
            !.hourCalls = 0, !.hourFirst = 0, !.hourSecond = 0, !.timerMinutes = 0,
            !.reading = "none", !.payload = "none", !.sleepTime = <<0, 0, 0, 0>>,
            !.tipWakes = IF h.steady THEN @ ELSE {}]

\* millis() advances by ms, and so does real time
Elapse(ms) ==
  /\ millisNow' = millisNow + ms
  /\ utc' = utc + ms \div 1000

\* C13: a faulty shouldEnterSleep that lets a run of exactly MAX_RUNTIME_MS go on
ShouldEnterSleepLate(ms) == ms - startTime > MAX_RUNTIME_MS

\* shouldEnterSleep(), evaluated when millis() reads ms
ShouldEnterSleep(ms) == ms - startTime >= MAX_RUNTIME_MS

\* the state after power-on; recording: the specification keeps the history that
\* spans cycles (lastSurrogate, tipWakes, steady)
PowerOn(recording) ==
  /\ build \in [useConfigPortal : BOOLEAN, timeBits : {32, 64}]
  /\ config \in [deepSleepTimeMinutes : SleepIntervals, rainMmPerTip : RainCalibrations]
  /\ pc = "COLD_BOOT"
  /\ utc = EpochStart
  /\ millisNow = 0
  /\ clockSet = FALSE
  /\ wifiConnected = FALSE
  /\ wakeCause = "UNDEFINED"
  /\ rainCounter = 0
  /\ isFirstRun = TRUE
  /\ needsConfiguration = FALSE
  /\ lastResetTime = 0
  /\ lastNTPSync = 0
  /\ rainHistory = EmptyHistory
  /\ rainHistoryCount = 0
  /\ totalRainfall = 0
  /\ wakeupReason = 0
  /\ startTime = 0
  /\ rainLastHour = 0
  /\ rainLast24Hours = 0
  /\ armed = {}
  /\ hist = [wakes |-> 0, restarts |-> 0, acceptedSum |-> 0, tips |-> 0, appends |-> 0,
             evictions |-> 0, transmissions |-> 0, shifted |-> FALSE, removedByAge |-> 0,
             lastIndex |-> -1, lastAmount |-> 0, lastTimestamp |-> 0, lastNow |-> 0,
             syncAttempts |-> 0, syncOutcome |-> "none", overBudget |-> FALSE,
             hourCalls |-> 0, hourFirst |-> 0, hourSecond |-> 0, timerMinutes |-> 0,
             wifiChanges |-> 0, lastSurrogate |-> -1, reading |-> "none",
             payload |-> "none", tipWakes |-> {}, steady |-> recording,
             requested |-> -1, fileSleep |-> -1, sleepTime |-> <<0, 0, 0, 0>>,
             recording |-> recording]

Init == PowerOn(FALSE)

InitRec == PowerOn(TRUE)

\* setup() lines 124-147: startTime, the start-up delay, printWakeupReason()
DetermineWakeCause ==
  /\ pc \in {"COLD_BOOT", "WOKEN"}
  /\ startTime' = millisNow
  /\ Elapse(STARTUP_DELAY)
  /\ wakeupReason' = CASE wakeCause = "EXT0" -> EXTERNAL_WAKEUP
                       [] wakeCause = "EXT1" -> BUTTON_WAKEUP
                       [] wakeCause = "TIMER" -> TIMER_WAKEUP
                       [] OTHER -> 0
  /\ needsConfiguration' = (needsConfiguration \/ wakeCause = "EXT1")
  /\ pc' = "SETUP_WIFI"
  /\ UNCHANGED <<build, config, clockSet, wifiConnected, wakeCause, rainCounter, isFirstRun,
                 lastResetTime, lastNTPSync, rainHistory, rainHistoryCount, totalRainfall,
                 rainLastHour, rainLast24Hours, armed, hist>>

\* setupWiFi(), association succeeds after connectMs; then syncTimeWithNTP()
SetupWiFiConnected(connectMs, reply, delay) ==
  /\ pc = "SETUP_WIFI"
  /\ connectMs < WIFI_TIMEOUT
  /\ LET s == SyncTimeWithNTP(TRUE, lastNTPSync, clockSet, utc + connectMs \div 1000,
                              reply, delay)
     IN  /\ lastNTPSync' = s.lastNTPSync
         /\ clockSet' = s.clockSet
         /\ Elapse(connectMs + s.waited)
         /\ hist' = [hist EXCEPT !.syncAttempts = @ + Attempts(s.outcome),
                                 !.syncOutcome = s.outcome,
                                 !.steady = @ /\ s.lastNTPSync > 0]
  /\ wifiConnected' = TRUE
  /\ pc' = "CONFIG_CHECK"
  /\ UNCHANGED <<build, config, wakeCause, rainCounter, isFirstRun, needsConfiguration,
                 lastResetTime, rainHistory, rainHistoryCount, totalRainfall, wakeupReason,
                 startTime, rainLastHour, rainLast24Hours, armed>>

\* setupWiFi(), association times out: the portal (USE_CONFIG_PORTAL) or carry on
SetupWiFiFailed ==
  /\ pc = "SETUP_WIFI"
  /\ Elapse(WIFI_TIMEOUT)
  /\ wifiConnected' = FALSE
  /\ pc' = IF build.useConfigPortal THEN "CONFIG_MODE" ELSE "CONFIG_CHECK"
  /\ RtcUnchanged
  /\ hist' = [hist EXCEPT !.steady = FALSE]
  /\ UNCHANGED <<build, config, clockSet, wakeCause, startTime, rainLastHour,
                 rainLast24Hours, armed>>

\* setup() lines 155-186: needsConfiguration || checkConfigButtonPressed()
ConfigCheck(buttonPressed) ==
  /\ pc = "CONFIG_CHECK"
  /\ pc' = IF (needsConfiguration \/ buttonPressed) /\ build.useConfigPortal
             THEN "CONFIG_MODE" ELSE "FIRST_RUN"
  /\ RtcUnchanged
  /\ UNCHANGED <<build, config, utc, millisNow, clockSet, wifiConnected, wakeCause,
                 startTime, rainLastHour, rainLast24Hours, armed, hist>>

\* the portal loop ends (timeout or button) and ESP.restart() resets the chip:
\* RTC_DATA_ATTR variables are reloaded, the system clock keeps running
ConfigModeRestart(portalMs) ==
  /\ pc = "CONFIG_MODE"
  /\ hist.restarts < MaxRestarts
  /\ utc' = utc + portalMs \div 1000
  /\ millisNow' = 0
  /\ wifiConnected' = FALSE
  /\ wakeCause' = "UNDEFINED"
  /\ RtcDefaults
  /\ startTime' = 0
  /\ rainLastHour' = 0
  /\ rainLast24Hours' = 0
  /\ armed' = {}
  /\ hist' = [NewCycle(hist) EXCEPT !.restarts = @ + 1, !.acceptedSum = 0,
                                     !.lastSurrogate = -1,
                                     !.steady = @ /\ wakeCause # "EXT0"]
  /\ pc' = "COLD_BOOT"
  /\ UNCHANGED <<build, config, clockSet>>

\* C28: a faulty first-run step that resets rainCounter in every cycle
FirstRunResetsEveryCycle ==
  /\ pc = "FIRST_RUN"
  /\ rainCounter' = 0
  /\ isFirstRun' = FALSE
  /\ pc' = IF ShouldEnterSleep(millisNow) THEN "ARM_SLEEP" ELSE "READ_SENSORS"
  /\ hist' = [hist EXCEPT !.overBudget = millisNow - startTime >= MAX_RUNTIME_MS,
                          !.steady = @ /\ ~ShouldEnterSleep(millisNow)]
  /\ UNCHANGED <<build, config, utc, millisNow, clockSet, wifiConnected, wakeCause,
                 needsConfiguration, lastResetTime, lastNTPSync, rainHistory,
                 rainHistoryCount, totalRainfall, wakeupReason, startTime, rainLastHour,
                 rainLast24Hours, armed>>

\* setup() lines 188-212: first-run initialisation, setupSensors(), first runtime check
FirstRun ==
  /\ pc = "FIRST_RUN"
  /\ rainCounter' = IF isFirstRun THEN 0 ELSE rainCounter
  /\ isFirstRun' = FALSE
  /\ pc' = IF ShouldEnterSleep(millisNow) THEN "ARM_SLEEP" ELSE "READ_SENSORS"
  /\ hist' = [hist EXCEPT !.overBudget = millisNow - startTime >= MAX_RUNTIME_MS,
                          !.steady = @ /\ ~ShouldEnterSleep(millisNow)]
  /\ UNCHANGED <<build, config, utc, millisNow, clockSet, wifiConnected, wakeCause,
                 needsConfiguration, lastResetTime, lastNTPSync, rainHistory,
                 rainHistoryCount, totalRainfall, wakeupReason, startTime, rainLastHour,
                 rainLast24Hours, armed>>

\* the sensor answers; a read that fails all attempts is explored on the boot cycle
SensorOutcomes == IF wakeCause = "UNDEFINED" THEN BOOLEAN ELSE {TRUE}

\* the sensor the build reads temperature and humidity from (USE_AHT20, USE_DHT22)
SensorKinds == {"AHT20", "DHT22"}

\* what temperature holds after readSensorData(): a measured value; after three failed
\* attempts readAHT20 has not assigned it, so it keeps the 0.0 of setup() line 201,
\* while readDHT22 has assigned the NaN that dht.readTemperature() returned
ReadingAfter(success, kind) ==
  IF success THEN "value" ELSE IF kind = "AHT20" THEN "initial" ELSE "nan"

\* dataDoc["temperature"] = temperature, serialised: a float that is NaN is written
\* as null, any other float as a number
PayloadField(reading) == IF reading = "nan" THEN "null" ELSE "number"

\* setup() lines 214-223: readSensorData() (three attempts), second runtime check
ReadSensors(success, kind) ==
  /\ pc = "READ_SENSORS"
  /\ LET ms == IF success THEN 0 ELSE SENSOR_ATTEMPTS * SENSOR_RETRY_DELAY
     IN  /\ Elapse(ms)
         /\ pc' = IF ShouldEnterSleep(millisNow + ms) THEN "ARM_SLEEP" ELSE "RAIN_ACCOUNT"
         /\ hist' = [hist EXCEPT
                       !.overBudget = millisNow + ms - startTime >= MAX_RUNTIME_MS,
                       !.steady = @ /\ ~ShouldEnterSleep(millisNow + ms),
                       !.reading = ReadingAfter(success, kind)]
  /\ RtcUnchanged
  /\ UNCHANGED <<build, config, clockSet, wifiConnected, wakeCause, startTime,
                 rainLastHour, rainLast24Hours, armed>>

\* setup() lines 225-235: a rain wake counts one tip and appends one record
RainAccount ==
  /\ pc = "RAIN_ACCOUNT"
  /\ IF wakeupReason = EXTERNAL_WAKEUP
       THEN LET r == AddRainRecord(config.rainMmPerTip, rainHistory, rainHistoryCount,
                                   totalRainfall, wifiConnected, lastNTPSync, clockSet,
                                   utc, millisNow, lastResetTime)
            IN  /\ rainCounter' = rainCounter + 1
                /\ rainHistory' = r.rainHistory
                /\ rainHistoryCount' = r.rainHistoryCount
                /\ totalRainfall' = r.totalRainfall
                /\ lastNTPSync' = r.lastNTPSync
                /\ lastResetTime' = r.lastResetTime
                /\ hist' = [hist EXCEPT
                     !.tips = @ + 1,
                     !.appends = IF r.accepted THEN @ + 1 ELSE @,
                     !.acceptedSum = IF r.accepted THEN @ + config.rainMmPerTip ELSE @,
                     !.shifted = r.shifted,
                     !.syncAttempts = @ + Attempts(r.outcome),
                     !.syncOutcome = r.outcome,
                     !.lastIndex = r.index,
                     !.lastAmount = IF r.index \in Indices
                                      THEN r.rainHistory[r.index].amount ELSE 0,
                     !.lastTimestamp = IF r.index \in Indices
                                         THEN r.rainHistory[r.index].timestamp ELSE 0,
                     !.lastNow = CurrentTime(wifiConnected, lastNTPSync, clockSet, utc,
                                             millisNow).time,
                     !.lastSurrogate = IF hist.recording /\ r.accepted
                       THEN SurrogateRead(wifiConnected, lastNTPSync, millisNow)
                       ELSE @,
                     !.steady = @ /\ (r.accepted => wifiConnected /\ lastNTPSync > 0)]
       ELSE UNCHANGED <<rainCounter, rainHistory, rainHistoryCount, totalRainfall,
                        lastNTPSync, lastResetTime, hist>>
  /\ pc' = "EVICT"
  /\ UNCHANGED <<build, config, utc, millisNow, clockSet, wifiConnected, wakeCause,
                 isFirstRun, needsConfiguration, wakeupReason, startTime, rainLastHour,
                 rainLast24Hours, armed>>

\* setup() lines 237-242: manageRainHistory()
Evict ==
  /\ pc = "EVICT"
  /\ LET cur == CurrentTime(wifiConnected, lastNTPSync, clockSet, utc, millisNow)
         m == ManageRainHistory(rainHistory, rainHistoryCount, cur.time, build.timeBits)
     IN  /\ rainHistory' = m.rainHistory
         /\ rainHistoryCount' = m.rainHistoryCount
         /\ lastNTPSync' = cur.lastNTPSync
         /\ hist' = [hist EXCEPT
              !.evictions = @ + 1,
              !.removedByAge = rainHistoryCount - m.rainHistoryCount,
              !.syncAttempts = @ + Attempts(cur.outcome),
              !.syncOutcome = cur.outcome,
              !.lastSurrogate = IF hist.recording
                THEN SurrogateRead(wifiConnected, lastNTPSync, millisNow)
                ELSE @,
              !.steady = @ /\ wifiConnected /\ lastNTPSync > 0]
  /\ pc' = "AGGREGATE"
  /\ UNCHANGED <<build, config, utc, millisNow, clockSet, wifiConnected, wakeCause,
                 rainCounter, isFirstRun, needsConfiguration, lastResetTime, totalRainfall,
                 wakeupReason, startTime, rainLastHour, rainLast24Hours, armed>>

\* setup() lines 259-279: third runtime check, then the 1 h and 24 h sums
Aggregate ==
  /\ pc = "AGGREGATE"
  /\ IF ShouldEnterSleep(millisNow)
       THEN /\ pc' = "ARM_SLEEP"
            /\ hist' = [hist EXCEPT !.overBudget = millisNow - startTime >= MAX_RUNTIME_MS,
                                    !.steady = FALSE]
            /\ UNCHANGED <<rainLastHour, rainLast24Hours, lastNTPSync>>
       ELSE /\ pc' = "TRANSMIT"
            /\ IF wifiConnected
                 THEN LET c1 == CurrentTime(wifiConnected, lastNTPSync, clockSet, utc, millisNow)
                          c2 == CurrentTime(wifiConnected, c1.lastNTPSync, clockSet, utc, millisNow)
                      IN  /\ rainLastHour' = GetRainLastHour(rainHistory, rainHistoryCount,
                                                             c1.time, build.timeBits)
                          /\ rainLast24Hours' = GetRainLast24Hours(rainHistory, rainHistoryCount,
                                                                   c2.time, build.timeBits)
                          /\ lastNTPSync' = c2.lastNTPSync
                          /\ hist' = [hist EXCEPT
                               !.overBudget = millisNow - startTime >= MAX_RUNTIME_MS,
                               !.syncAttempts = @ + Attempts(c1.outcome) + Attempts(c2.outcome),
                               !.syncOutcome = LastOutcome(c1.outcome, c2.outcome),
                               !.hourCalls = @ + 1,
                               !.hourFirst = rainLastHour',
                               !.lastSurrogate = IF hist.recording
                                 THEN SurrogateRead(wifiConnected, lastNTPSync, millisNow)
                                 ELSE @,
                               !.steady = @ /\ lastNTPSync > 0]
                 ELSE /\ hist' = [hist EXCEPT
                             !.overBudget = millisNow - startTime >= MAX_RUNTIME_MS]
                      /\ UNCHANGED <<rainLastHour, rainLast24Hours, lastNTPSync>>
  /\ UNCHANGED <<build, config, utc, millisNow, clockSet, wifiConnected, wakeCause,
                 rainCounter, isFirstRun, needsConfiguration, lastResetTime, rainHistory,
                 rainHistoryCount, totalRainfall, wakeupReason, startTime, armed>>

\* setup() lines 281-305: hand the values to the transport, then WiFi off.
\* viaMeshtastic: sendDataToMeshtastic() runs (directly, or as the fallback of a failed
\* sendDataToMQTT()); it calls getRainLastHour() and getRainLast24Hours() again, while
\* sendDataToMQTT() sends the values computed before. up: WiFi.status() is still
\* WL_CONNECTED when the send function reads the clock.
Transmit(viaMeshtastic, up) ==
  /\ pc = "TRANSMIT"
  /\ viaMeshtastic \/ up
  /\ up \/ hist.wifiChanges < MaxWiFiChanges
  /\ IF wifiConnected
       THEN LET none == [time |-> 0, lastNTPSync |-> lastNTPSync, outcome |-> "none"]
                c1 == IF viaMeshtastic
                        THEN CurrentTime(up, lastNTPSync, clockSet, utc, millisNow)
                        ELSE none
                c2 == IF viaMeshtastic
                        THEN CurrentTime(up, c1.lastNTPSync, clockSet, utc, millisNow)
                        ELSE none
                c3 == CurrentTime(up, c2.lastNTPSync, clockSet, utc, millisNow)
            IN  /\ lastNTPSync' = c3.lastNTPSync
                /\ hist' = [hist EXCEPT
                     !.transmissions = @ + 1,
                     !.wifiChanges = IF up THEN @ ELSE @ + 1,
                     !.syncAttempts = @ + Attempts(c1.outcome) + Attempts(c2.outcome)
                                        + Attempts(c3.outcome),
                     !.syncOutcome = LastOutcome(LastOutcome(c1.outcome, c2.outcome),
                                                 c3.outcome),
                     !.hourCalls = IF viaMeshtastic THEN @ + 1 ELSE @,
                     !.hourSecond = IF viaMeshtastic
                                      THEN GetRainLastHour(rainHistory, rainHistoryCount,
                                                           c1.time, build.timeBits)
                                      ELSE @,
                     !.lastSurrogate = IF hist.recording
                       THEN SurrogateRead(up, lastNTPSync, millisNow)
                       ELSE @,
                     !.steady = @ /\ up /\ lastNTPSync > 0,
                     !.payload = PayloadField(hist.reading)]
       ELSE UNCHANGED <<lastNTPSync, hist>>
  /\ wifiConnected' = FALSE
  /\ pc' = "ARM_SLEEP"
  /\ UNCHANGED <<build, config, utc, millisNow, clockSet, wakeCause, rainCounter,
                 isFirstRun, needsConfiguration, lastResetTime, rainHistory,
                 rainHistoryCount, totalRainfall, wakeupReason, startTime, rainLastHour,
                 rainLast24Hours, armed>>

\* uint64_t sleepTime = config->deepSleepTimeMinutes * uS_TO_MIN_FACTOR: the factor is
\* unsigned long long, so the product is formed in 64 bits. The value is kept as its
\* four 16-bit limbs, least significant first; what does not fit the fourth is lost.
SleepTime(minutes) ==
  LET p0 == minutes * (uS_TO_MIN_FACTOR % 2^16)
      p1 == minutes * (uS_TO_MIN_FACTOR \div 2^16) + p0 \div 2^16
      p2 == p1 \div 2^16
  IN  <<p0 % 2^16, p1 % 2^16, p2 % 2^16, (p2 \div 2^16) % 2^16>>

\* C12: a faulty exit that enables the timer wake-up only
ArmSleepTimerOnly ==
  /\ pc = "ARM_SLEEP"
  /\ armed' = {"TIMER"}
  /\ hist' = [hist EXCEPT !.timerMinutes = config.deepSleepTimeMinutes,
                           !.sleepTime = SleepTime(config.deepSleepTimeMinutes)]
  /\ wifiConnected' = FALSE
  /\ pc' = "SUSPENDED"
  /\ RtcUnchanged
  /\ UNCHANGED <<build, config, utc, millisNow, clockSet, wakeCause, startTime,
                 rainLastHour, rainLast24Hours>>

\* setupDeepSleep() and esp_deep_sleep_start()
ArmSleep ==
  /\ pc = "ARM_SLEEP"
  /\ armed' = {"EXT0", "EXT1", "TIMER"}
  /\ hist' = [hist EXCEPT !.timerMinutes = config.deepSleepTimeMinutes,
                           !.sleepTime = SleepTime(config.deepSleepTimeMinutes)]
  /\ wifiConnected' = FALSE
  /\ pc' = "SUSPENDED"
  /\ RtcUnchanged
  /\ UNCHANGED <<build, config, utc, millisNow, clockSet, wakeCause, startTime,
                 rainLastHour, rainLast24Hours>>

\* a wake source fires gap seconds after the previous wake; RTC memory is retained,
\* ordinary globals are re-initialised, millis() restarts
Wake(cause, gap) ==
  /\ pc = "SUSPENDED"
  /\ hist.wakes < MaxWakes
  /\ cause \in armed
  /\ gap > millisNow \div 1000
  /\ gap <= millisNow \div 1000 + config.deepSleepTimeMinutes * 60
  /\ utc' = utc - millisNow \div 1000 + gap
  /\ millisNow' = 0
  /\ wakeCause' = cause
  /\ startTime' = 0
  /\ rainLastHour' = 0
  /\ rainLast24Hours' = 0
  /\ armed' = {}
  /\ hist' = [NewCycle(hist) EXCEPT
                !.wakes = @ + 1,
                !.tipWakes = IF cause = "EXT0" /\ hist.steady THEN @ \cup {utc'}
                             ELSE @]
  /\ pc' = "WOKEN"
  /\ RtcUnchanged
  /\ UNCHANGED <<build, config, clockSet, wifiConnected>>

\* the access point drops the station while the cycle runs
WiFiDrop ==
  /\ pc \in {"RAIN_ACCOUNT", "EVICT", "AGGREGATE", "TRANSMIT"}
  /\ wifiConnected
  /\ hist.wifiChanges < MaxWiFiChanges
  /\ wifiConnected' = FALSE
  /\ hist' = [hist EXCEPT !.wifiChanges = @ + 1]
  /\ RtcUnchanged
  /\ UNCHANGED <<build, config, pc, utc, millisNow, clockSet, wakeCause, startTime,
                 rainLastHour, rainLast24Hours, armed>>

\* the station, still trying after setupWiFi() gave up (WiFi.begin() is not undone),
\* associates while the cycle runs
WiFiUp ==
  /\ pc \in {"RAIN_ACCOUNT", "EVICT", "AGGREGATE", "TRANSMIT"}
  /\ ~wifiConnected
  /\ hist.wifiChanges < MaxWiFiChanges
  /\ wifiConnected' = TRUE
  /\ hist' = [hist EXCEPT !.wifiChanges = @ + 1]
  /\ RtcUnchanged
  /\ UNCHANGED <<build, config, pc, utc, millisNow, clockSet, wakeCause, startTime,
                 rainLastHour, rainLast24Hours, armed>>

Next ==
  \/ DetermineWakeCause
  \/ \E c \in ConnectDelays, reply \in BOOLEAN, d \in ReplyDelays :
       SetupWiFiConnected(c, reply, d)
  \/ SetupWiFiFailed
  \/ \E b \in BOOLEAN : ConfigCheck(b)
  \/ \E p \in PortalDurations : ConfigModeRestart(p)
  \/ FirstRun
  \/ \E ok \in SensorOutcomes, k \in SensorKinds : ReadSensors(ok, k)
  \/ RainAccount
  \/ Evict
  \/ Aggregate
  \/ \E via \in BOOLEAN, up \in BOOLEAN : Transmit(via, up)
  \/ ArmSleep
  \/ \E c \in WakeCauses, g \in WakeGaps : Wake(c, g)
  \/ WiFiDrop
  \/ WiFiUp

Spec == Init /\ [][Next]_vars

\* the same program, with the history that spans cycles recorded
SpecRec == InitRec /\ [][Next]_vars

(* ---------------- the rain log functions on their own ---------------- *)

\* timestamps (s), clock readings (s) and amounts the functions are applied to
LogTimestamps == {0, 1800, 4000}
LogNows == {4000, 90000}
LogAmounts == {-DEFAULT_RAIN_MM_PER_TIP, 0, DEFAULT_RAIN_MM_PER_TIP}

\* the logs of count records over LogTimestamps, unused slots zeroed
LogsOfCount(count) ==
  {h \in [Indices -> [timestamp : LogTimestamps, amount : {DEFAULT_RAIN_MM_PER_TIP},
                      regime : {"millis"}] \cup {EmptyRecord}] :
     \A i \in Indices : (h[i] = EmptyRecord) <=> (i >= count)}

RECURSIVE SumAmounts(_, _)
SumAmounts(h, n) == IF n = 0 THEN 0 ELSE h[n - 1].amount + SumAmounts(h, n - 1)

InitLog ==
  /\ build \in [useConfigPortal : {FALSE}, timeBits : {32, 64}]
  /\ config = [deepSleepTimeMinutes |-> DEFAULT_DEEP_SLEEP_TIME_MINUTES,
               rainMmPerTip |-> DEFAULT_RAIN_MM_PER_TIP]
  /\ pc = "LOG"
  /\ millisNow \in {n * 1000 : n \in LogNows}
  /\ utc = EpochStart + millisNow \div 1000
  /\ clockSet = FALSE
  /\ wifiConnected = FALSE
  /\ wakeCause = "UNDEFINED"
  /\ rainCounter = 0
  /\ isFirstRun = FALSE
  /\ needsConfiguration = FALSE
  /\ lastResetTime = 0
  /\ lastNTPSync = 0
  /\ rainHistoryCount \in 0 .. MAX_RAIN_RECORDS
  /\ rainHistory \in LogsOfCount(rainHistoryCount)
  /\ totalRainfall = SumAmounts(rainHistory, rainHistoryCount)
  /\ wakeupReason = 0
  /\ startTime = 0
  /\ rainLastHour = 0
  /\ rainLast24Hours = 0
  /\ armed = {}
  /\ hist = [wakes |-> 0, restarts |-> 0, acceptedSum |-> totalRainfall, tips |-> 0,
             appends |-> 0, evictions |-> 0, transmissions |-> 0, shifted |-> FALSE,
             removedByAge |-> 0, lastIndex |-> -1, lastAmount |-> 0, lastTimestamp |-> 0,
             lastNow |-> 0, syncAttempts |-> 0, syncOutcome |-> "none",
             overBudget |-> FALSE, hourCalls |-> 0, hourFirst |-> 0, hourSecond |-> 0,
             timerMinutes |-> 0, wifiChanges |-> 0, lastSurrogate |-> -1,
             reading |-> "none", payload |-> "none", tipWakes |-> {},
             steady |-> FALSE, requested |-> -1,
             fileSleep |-> -1, sleepTime |-> <<0, 0, 0, 0>>, recording |-> FALSE]

\* addRainRecord(amount)
LogAppend(amount) ==
  /\ pc = "LOG"
  /\ hist.appends = 0 /\ hist.tips = 0
  /\ LET r == AddRainRecord(amount, rainHistory, rainHistoryCount, totalRainfall,
                            wifiConnected, lastNTPSync, clockSet, utc, millisNow,
                            lastResetTime)
     IN  /\ rainHistory' = r.rainHistory
         /\ rainHistoryCount' = r.rainHistoryCount
         /\ totalRainfall' = r.totalRainfall
         /\ lastNTPSync' = r.lastNTPSync
         /\ lastResetTime' = r.lastResetTime
         /\ hist' = [hist EXCEPT
              !.tips = 1,
              !.appends = IF r.accepted THEN 1 ELSE 0,
              !.acceptedSum = IF r.accepted THEN @ + amount ELSE @,
              !.shifted = r.shifted,
              !.syncAttempts = @ + Attempts(r.outcome),
              !.syncOutcome = r.outcome,
              !.lastIndex = r.index,
              !.lastAmount = amount]
  /\ UNCHANGED <<build, config, pc, utc, millisNow, clockSet, wifiConnected, wakeCause,
                 rainCounter, isFirstRun, needsConfiguration, wakeupReason, startTime,
                 rainLastHour, rainLast24Hours, armed>>

\* manageRainHistory()
LogEvict ==
  /\ pc = "LOG"
  /\ hist.evictions = 0
  /\ LET cur == CurrentTime(wifiConnected, lastNTPSync, clockSet, utc, millisNow)
         m == ManageRainHistory(rainHistory, rainHistoryCount, cur.time, build.timeBits)
     IN  /\ rainHistory' = m.rainHistory
         /\ rainHistoryCount' = m.rainHistoryCount
         /\ lastNTPSync' = cur.lastNTPSync
         /\ hist' = [hist EXCEPT !.evictions = 1,
                                 !.removedByAge = rainHistoryCount - m.rainHistoryCount,
                                 !.syncAttempts = @ + Attempts(cur.outcome),
                                 !.syncOutcome = cur.outcome,
                                 !.lastSurrogate = IF hist.recording
                                   THEN SurrogateRead(wifiConnected, lastNTPSync, millisNow)
                                   ELSE @]
  /\ UNCHANGED <<build, config, pc, utc, millisNow, clockSet, wifiConnected, wakeCause,
                 rainCounter, isFirstRun, needsConfiguration, lastResetTime, totalRainfall,
                 wakeupReason, startTime, rainLastHour, rainLast24Hours, armed>>

\* getRainLastHour() and getRainLast24Hours()
LogSum ==
  /\ pc = "LOG"
  /\ LET c1 == CurrentTime(wifiConnected, lastNTPSync, clockSet, utc, millisNow)
         c2 == CurrentTime(wifiConnected, c1.lastNTPSync, clockSet, utc, millisNow)
     IN  /\ rainLastHour' = GetRainLastHour(rainHistory, rainHistoryCount, c1.time,
                                            build.timeBits)
         /\ rainLast24Hours' = GetRainLast24Hours(rainHistory, rainHistoryCount, c2.time,
                                                  build.timeBits)
         /\ lastNTPSync' = c2.lastNTPSync
         /\ hist' = [hist EXCEPT
              !.syncAttempts = @ + Attempts(c1.outcome) + Attempts(c2.outcome),
              !.syncOutcome = LastOutcome(c1.outcome, c2.outcome),
              !.hourCalls = @ + 1,
              !.hourFirst = rainLastHour']
  /\ pc' = "LOG_SUMMED"
  /\ UNCHANGED <<build, config, utc, millisNow, clockSet, wifiConnected, wakeCause,
                 rainCounter, isFirstRun, needsConfiguration, lastResetTime, rainHistory,
                 rainHistoryCount, totalRainfall, wakeupReason, startTime, armed>>

NextLog ==
  \/ \E a \in LogAmounts : LogAppend(a)
  \/ LogEvict
  \/ LogSum

SpecLog == InitLog /\ [][NextLog]_vars

(* ---------------- the sleep interval, from a configuration request to the timer ---------------- *)

\* minutes a client may ask for
MaxSleepRequest == 361
SleepRequests == 0 .. MaxSleepRequest

\* a value stored into the uint8_t field deepSleepTimeMinutes
Uint8(n) == n % 2^8

\* uint8_t sleep = doc["sleep"]: a number that fits is converted as it is; for one
\* that does not, the JSON library of the build yields 0 or the low eight bits
JsonAsUint8(n) == IF n \in 0 .. 2^8 - 1 THEN {n} ELSE {0, Uint8(n)}

InitCfg ==
  /\ build \in [useConfigPortal : {TRUE}, timeBits : {32, 64}]
  /\ config = [deepSleepTimeMinutes |-> DEFAULT_DEEP_SLEEP_TIME_MINUTES,
               rainMmPerTip |-> DEFAULT_RAIN_MM_PER_TIP]
  /\ pc = "CONFIG_MODE"
  /\ millisNow = 0
  /\ utc = EpochStart
  /\ clockSet = FALSE
  /\ wifiConnected = FALSE
  /\ wakeCause = "UNDEFINED"
  /\ rainCounter = 0
  /\ isFirstRun = TRUE
  /\ needsConfiguration = FALSE
  /\ lastResetTime = 0
  /\ lastNTPSync = 0
  /\ rainHistoryCount = 0
  /\ rainHistory = [i \in Indices |-> EmptyRecord]
  /\ totalRainfall = 0
  /\ wakeupReason = 0
  /\ startTime = 0
  /\ rainLastHour = 0
  /\ rainLast24Hours = 0
  /\ armed = {}
  /\ hist = [wakes |-> 0, restarts |-> 0, acceptedSum |-> 0, tips |-> 0, appends |-> 0,
             evictions |-> 0, transmissions |-> 0, shifted |-> FALSE, removedByAge |-> 0,
             lastIndex |-> -1, lastAmount |-> 0, lastTimestamp |-> 0, lastNow |-> 0,
             syncAttempts |-> 0, syncOutcome |-> "none", overBudget |-> FALSE,
             hourCalls |-> 0, hourFirst |-> 0, hourSecond |-> 0, timerMinutes |-> 0,
             wifiChanges |-> 0, lastSurrogate |-> -1, reading |-> "none",
             payload |-> "none", tipWakes |-> {}, steady |-> FALSE,
             requested |-> -1, fileSleep |-> -1, sleepTime |-> <<0, 0, 0, 0>>,
             recording |-> FALSE]

CfgUnchanged ==
  /\ RtcUnchanged
  /\ UNCHANGED <<build, utc, millisNow, clockSet, wifiConnected, wakeCause, startTime,
                 rainLastHour, rainLast24Hours, armed>>

\* handleConfigUpdate(): the deepSleep parameter of the web form; an accepted value is
\* assigned to the uint8_t field and the configuration is saved
HandleConfigUpdate(deepSleep) ==
  /\ pc = "CONFIG_MODE"
  /\ IF deepSleep >= 1 /\ deepSleep <= 360
       THEN /\ config' = [config EXCEPT !.deepSleepTimeMinutes = Uint8(deepSleep)]
            /\ hist' = [hist EXCEPT !.requested = deepSleep,
                                     !.fileSleep = Uint8(deepSleep)]
       ELSE UNCHANGED <<config, hist>>
  /\ pc' = "CONFIG_SAVED"
  /\ CfgUnchanged

\* ConfigCharacteristicCallbacks::onWrite(): the "sleep" key of the BLE document
OnWrite(requested, sleep) ==
  /\ pc = "CONFIG_MODE"
  /\ sleep \in JsonAsUint8(requested)
  /\ IF sleep >= 1 /\ sleep <= 360
       THEN /\ config' = [config EXCEPT !.deepSleepTimeMinutes = sleep]
            /\ hist' = [hist EXCEPT !.requested = requested, !.fileSleep = sleep]
       ELSE UNCHANGED <<config, hist>>
  /\ pc' = "CONFIG_SAVED"
  /\ CfgUnchanged

\* ESP.restart() at the end of the session, then loadConfig() of the next start:
\* doc["sleep"] | DEFAULT_DEEP_SLEEP_TIME_MINUTES. The cycle that follows leaves the
\* configuration alone up to setupDeepSleep().
LoadConfig ==
  /\ pc = "CONFIG_SAVED"
  /\ config' = [config EXCEPT !.deepSleepTimeMinutes =
                   IF hist.fileSleep = -1 THEN DEFAULT_DEEP_SLEEP_TIME_MINUTES
                   ELSE Uint8(hist.fileSleep)]
  /\ pc' = "ARM_SLEEP"
  /\ UNCHANGED hist
  /\ CfgUnchanged

NextCfg ==
  \/ \E m \in SleepRequests : HandleConfigUpdate(m)
  \/ \E m \in SleepRequests : \E s \in JsonAsUint8(m) : OnWrite(m, s)
  \/ LoadConfig
  \/ ArmSleep

SpecCfg == InitCfg /\ [][NextCfg]_vars

(* ---------------- properties ---------------- *)

\* the live records, oldest first
Live(h, n) == [i \in 1 .. n |-> h[i - 1]]

\* C1: rainHistoryCount always lies in 0 .. MAX_RAIN_RECORDS, and every append
\* writes at an index in 0 .. MAX_RAIN_RECORDS - 1.
C1_CountAndIndexInBounds ==
  /\ rainHistoryCount \in 0 .. MAX_RAIN_RECORDS
  /\ hist.appends > 0 => hist.lastIndex \in Indices

\* C1: an append on a full log has just written the last slot
C1_Witness ==
  /\ pc = "EVICT"
  /\ hist.shifted
  /\ hist.lastIndex = MAX_RAIN_RECORDS - 1
  /\ rainHistoryCount = MAX_RAIN_RECORDS

C3_RainWakeCountsOneTip ==
  (pc = "SUSPENDED" /\ wakeCause = "EXT0") =>
    /\ hist.tips = 1
    /\ hist.appends = 1
    /\ hist.lastAmount = config.rainMmPerTip
    /\ hist.lastTimestamp = hist.lastNow

\* C4: a cycle only ever starts from SUSPENDED, i.e. every cycle that started has
\* armed its wake sources and suspended; none ends in a restart.
C4_CyclesStartFromSuspended ==
  [][pc' \in {"COLD_BOOT", "WOKEN"} => pc = "SUSPENDED"]_vars

\* C5: the live records are in non-decreasing order of timestamp.
C5_TimestampsNonDecreasing ==
  \A i \in Indices :
    i + 1 < rainHistoryCount => rainHistory[i].timestamp <= rainHistory[i + 1].timestamp

\* C6: an accepted append on a full log drops the record at index 0, moves every other
\* record down one slot, writes the new record at MAX_RAIN_RECORDS - 1, leaves the
\* count at MAX_RAIN_RECORDS and adds the amount to totalRainfall.
C6_FullLogAppendEvictsOldest ==
  [][(/\ pc = "RAIN_ACCOUNT" /\ pc' = "EVICT"
      /\ wakeupReason = EXTERNAL_WAKEUP
      /\ config.rainMmPerTip > 0
      /\ rainHistoryCount = MAX_RAIN_RECORDS)
     => /\ \A i \in Indices : i + 1 < MAX_RAIN_RECORDS => rainHistory'[i] = rainHistory[i + 1]
        /\ rainHistory'[MAX_RAIN_RECORDS - 1].amount = config.rainMmPerTip
        /\ rainHistory'[MAX_RAIN_RECORDS - 1].timestamp = hist'.lastNow
        /\ rainHistoryCount' = MAX_RAIN_RECORDS
        /\ totalRainfall' = totalRainfall + config.rainMmPerTip]_vars

\* C6: an append on a full log whose oldest record differed from its successor
C6_Witness ==
  /\ pc = "EVICT"
  /\ hist.shifted
  /\ rainHistoryCount = MAX_RAIN_RECORDS
  /\ rainHistory[0].timestamp # rainHistory[1].timestamp
  /\ rainHistory[MAX_RAIN_RECORDS - 1].timestamp = hist.lastNow

\* C7: manageRainHistory leaves exactly the records with timestamp >= now - 86400,
\* in their previous order.
C7_EvictKeepsExactlyLastDay ==
  [][(pc = "EVICT" /\ pc' = "AGGREGATE")
     => LET now == CurrentTime(wifiConnected, lastNTPSync, clockSet, utc, millisNow).time
            Keep(r) == r.timestamp >= now - DAY_MILLIS \div 1000
        IN  Live(rainHistory', rainHistoryCount')
              = SelectSeq(Live(rainHistory, rainHistoryCount), Keep)]_vars

\* the amounts of the live records with timestamp >= now - window, summed
RECURSIVE WindowSum(_, _, _, _)
WindowSum(h, n, now, window) ==
  IF n = 0 THEN 0
  ELSE WindowSum(h, n - 1, now, window)
         + (IF h[n - 1].timestamp >= now - window THEN h[n - 1].amount ELSE 0)

C9_WindowReadsOneRegime ==
  (pc = "EVICT" \/ (pc = "AGGREGATE" /\ wifiConnected /\ ~ShouldEnterSleep(millisNow))) =>
    \A i \in Indices :
      i < rainHistoryCount => rainHistory[i].regime = ClockRegime(wifiConnected, lastNTPSync)

\* C10: a suspended cycle has run the age eviction exactly once and holds no record
\* older than now - 86400.
C10_EvictedOncePerCycle ==
  pc = "SUSPENDED" =>
    /\ hist.evictions = 1
    /\ LET now == IF lastNTPSync > 0 THEN SystemTime(clockSet, utc) ELSE millisNow \div 1000
       IN  \A i \in Indices :
             i < rainHistoryCount => rainHistory[i].timestamp >= now - DAY_MILLIS \div 1000

\* C11: no cycle both enters configuration mode and does normal-cycle work (sensor
\* read, rain accounting, eviction, aggregation, transmission), and a cycle woken by
\* the configuration button goes to configuration mode, not into the normal cycle.
C11_ConfigAndNormalExclusive ==
  /\ pc = "CONFIG_MODE" =>
       hist.tips = 0 /\ hist.evictions = 0 /\ hist.hourCalls = 0 /\ hist.transmissions = 0
  /\ wakeCause = "EXT1" =>
       pc \notin {"FIRST_RUN", "READ_SENSORS", "RAIN_ACCOUNT", "EVICT", "AGGREGATE",
                  "TRANSMIT"}

\* C12: whenever the device is suspended, the timer (with the configured interval),
\* the rain interrupt and the configuration button were all armed in the cycle that
\* just ended, on the normal exit as on the runtime-exceeded exits.
C12_AllWakeSourcesArmed ==
  pc = "SUSPENDED" =>
    /\ armed = {"EXT0", "EXT1", "TIMER"}
    /\ hist.timerMinutes = config.deepSleepTimeMinutes

\* C12: the device is suspended after a runtime-exceeded exit
C12_Witness ==
  /\ pc = "SUSPENDED"
  /\ hist.overBudget
  /\ hist.evictions = 0
  /\ armed = {"EXT0", "EXT1", "TIMER"}

\* C13: once a checkpoint has found the run time since cycle start >= MAX_RUNTIME_MS,
\* the cycle is arming sleep or suspended, and it has transmitted nothing.
C13_OverBudgetGoesToSleep ==
  hist.overBudget =>
    /\ pc \in {"ARM_SLEEP", "SUSPENDED"}
    /\ hist.transmissions = 0

\* C13: the second checkpoint fired (the time sync had succeeded, the sensor read was
\* slow) and the device is suspended
C13_Witness ==
  /\ pc = "SUSPENDED"
  /\ hist.overBudget
  /\ lastNTPSync > 0
  /\ wifiConnected = FALSE

\* C14: addRainRecord with amount <= 0 leaves the records, the count and
\* totalRainfall unchanged.
C14_NonPositiveAppendIsNoOp ==
  [][(hist.tips = 0 /\ hist'.tips = 1 /\ hist'.lastAmount <= 0)
     => UNCHANGED <<rainHistory, rainHistoryCount, totalRainfall>>]_vars

\* C14: addRainRecord was called with amount <= 0 on a log holding records
C14_Witness ==
  /\ pc = "LOG"
  /\ hist.tips = 1
  /\ hist.lastAmount <= 0
  /\ hist.appends = 0
  /\ rainHistoryCount > 0

C16_OnlyRainWakesCount ==
  [][/\ (pc # "SUSPENDED" /\ wakeCause # "EXT0")
          => /\ rainCounter' = rainCounter
             /\ totalRainfall' = totalRainfall
             /\ hist'.appends = 0
     /\ hist'.appends <= 1]_vars

\* C17: a call of getRainLastHour and getRainLast24Hours leaves the rain log, the
\* count, totalRainfall, rainCounter and lastNTPSync as they were.
C17_QueriesHaveNoSideEffects ==
  [][(pc = "AGGREGATE" /\ pc' = "TRANSMIT")
     => UNCHANGED <<rainHistory, rainHistoryCount, totalRainfall, rainCounter,
                    lastNTPSync>>]_vars

\* C18: when getRainLastHour has been called twice in a cycle (no append lies between
\* the two calls), both calls returned the same value.
C18_LastHourTwiceSame ==
  hist.hourCalls = 2 => hist.hourFirst = hist.hourSecond

\* C19: within one cycle at most one network time-sync attempt is made; in particular
\* an attempt that timed out is not repeated by a later step of the cycle.
C19_OneSyncAttemptPerCycle == hist.syncAttempts <= 1

\* C19: a cycle whose only attempt timed out went on to append, evict, aggregate and
\* transmit with WiFi connected, and is suspended
C19_Witness ==
  /\ pc = "SUSPENDED"
  /\ wakeCause = "EXT0"
  /\ hist.syncAttempts = 1
  /\ lastNTPSync = 0
  /\ hist.appends = 1
  /\ hist.hourCalls = 2
  /\ hist.transmissions = 1

\* C20: lastNTPSync changes only in a step whose time-sync attempt was answered, and
\* then it is set to the current synchronised time; a timed-out attempt or one without
\* WiFi leaves it as it was.
C20_ClockStateChangesOnlyOnSync ==
  [][lastNTPSync' # lastNTPSync
     => hist'.syncOutcome = "synced" /\ lastNTPSync' = utc']_vars

\* C21: while the clock is unsynchronised, each surrogate reading (millis() / 1000) a
\* clock call returns is at least the surrogate reading the call before it returned.
C21_SurrogateNonDecreasing ==
  [][(hist.lastSurrogate >= 0 /\ hist'.lastSurrogate >= 0)
     => hist'.lastSurrogate >= hist.lastSurrogate]_vars

\* C22: the RTC counters are initialised once per power-on: the first-run step clears
\* isFirstRun (resetting rainCounter if it was set) and the flag is never set again;
\* a wake from deep sleep finds rainCounter, the rain log, totalRainfall and
\* lastNTPSync as the previous cycle left them; rainCounter and totalRainfall never
\* decrease.
C22_CountersInitialisedOnce ==
  [][/\ pc = "FIRST_RUN" => (~isFirstRun' /\ (isFirstRun => rainCounter' = 0))
     /\ isFirstRun' => isFirstRun
     /\ pc' = "WOKEN" => UNCHANGED <<rainCounter, rainHistory, rainHistoryCount,
                                     totalRainfall, lastNTPSync>>
     /\ rainCounter' >= rainCounter
     /\ totalRainfall' >= totalRainfall]_vars

\* C23: in every state totalRainfall is at least the sum of the amounts of the records
\* the log retains.
C23_TotalCoversRetained ==
  totalRainfall >= SumAmounts(rainHistory, rainHistoryCount)

\* C23: the log retains records and has lost others, by capacity or by age
C23_Witness ==
  /\ pc = "SUSPENDED"
  /\ rainHistoryCount > 0
  /\ totalRainfall > SumAmounts(rainHistory, rainHistoryCount)

\* C24: a cycle whose sensor read failed on all attempts, and which the runtime check
\* did not end, goes on to the eviction and the aggregation and suspends; if it
\* transmitted, the temperature field of its payload is a missing-reading marker
\* (null), not a number.
C24_FailedReadSendsMarker ==
  (pc = "SUSPENDED" /\ hist.reading \in {"initial", "nan"} /\ ~hist.overBudget) =>
    /\ hist.evictions = 1
    /\ hist.transmissions > 0 => hist.payload = "null"

\* C25: the steps of a cycle come in this order: the rain append, the age eviction, the
\* computation of the 1 h and 24 h sums, the hand-over to the transmission, the arming
\* of the wake sources. Each step is taken only after the steps before it, and the
\* sums a transmission sends have been computed in the cycle by the time it sends them.
C25_StepsInOrder ==
  [][/\ hist'.tips > hist.tips =>
          hist.evictions = 0 /\ hist.hourCalls = 0 /\ hist.transmissions = 0
     /\ hist'.evictions > hist.evictions =>
          /\ hist.hourCalls = 0 /\ hist.transmissions = 0
          /\ wakeupReason = EXTERNAL_WAKEUP => hist.tips = 1
     /\ hist'.hourCalls > hist.hourCalls => hist'.evictions = 1
     /\ hist'.transmissions > hist.transmissions =>
          hist.evictions = 1 /\ hist'.hourCalls >= 1 /\ armed = {}]_vars

\* C26: in a cycle that appended a record, that record is still the newest live record
\* after the cycle's eviction, and the 1 h and 24 h sums the cycle computed include
\* its amount, whichever clock each step read.
C26_OwnRecordRetainedAndCounted ==
  /\ (hist.appends = 1 /\ hist.evictions = 1) =>
       /\ rainHistoryCount > 0
       /\ rainHistory[rainHistoryCount - 1].timestamp = hist.lastTimestamp
  /\ (hist.appends = 1 /\ hist.hourCalls >= 1) =>
       /\ rainLastHour >= hist.lastAmount
       /\ rainLast24Hours >= hist.lastAmount
       /\ hist.hourCalls = 2 => hist.hourSecond >= hist.lastAmount

\* the number of tips whose rain wake came at or after time from
TipsSince(from) == Cardinality({w \in hist.tipWakes : w >= from})

\* fewer than MAX_RAIN_RECORDS tips in any span of 24 hours
SparseTips ==
  \A a \in hist.tipWakes :
    Cardinality({b \in hist.tipWakes : a <= b /\ b < a + DAY_MILLIS \div 1000})
      < MAX_RAIN_RECORDS

\* C27: when every cycle so far ran on the synchronised clock, none was ended by the
\* runtime check and fewer than MAX_RAIN_RECORDS tips fell in any 24 hours, the sums a
\* cycle has just computed are the amounts of the tips whose rain wake lies in the
\* trailing 3600 s and 86400 s of the cycle's current time.
C27_SumsEqualTipsInWindow ==
  (/\ pc = "TRANSMIT" /\ hist.hourCalls = 1
   /\ hist.steady /\ SparseTips) =>
    LET now == SystemTime(clockSet, utc)
    IN  /\ rainLastHour = TipsSince(now - HOUR_MILLIS \div 1000) * config.rainMmPerTip
        /\ rainLast24Hours = TipsSince(now - DAY_MILLIS \div 1000) * config.rainMmPerTip

\* C28: with a positive calibration factor, whenever a cycle has suspended the
\* cumulative rain value rainCounter * rainMmPerTip equals totalRainfall, and both
\* equal the sum of the appends the log accepted.
C28_CounterMatchesTotal ==
  (pc = "SUSPENDED" /\ config.rainMmPerTip > 0) =>
    /\ rainCounter * config.rainMmPerTip = totalRainfall
    /\ totalRainfall = hist.acceptedSum

\* C28: a cycle has suspended after more tips than the log can hold
C28_Witness ==
  /\ pc = "SUSPENDED"
  /\ config.rainMmPerTip > 0
  /\ rainCounter = MAX_RAIN_RECORDS + 1
  /\ rainHistoryCount <= MAX_RAIN_RECORDS

\* C29: the start that follows a configuration session (it began with ESP.restart())
\* finds needsConfiguration cleared and goes on to the normal cycle: it is in
\* configuration mode again only if the button is pressed during that start.
C29_NormalOperationAfterConfig ==
  (hist.restarts >= 1 /\ wakeCause = "UNDEFINED") =>
    /\ ~needsConfiguration
    /\ pc = "CONFIG_MODE" => wifiConnected

\* C30: when a sleep interval accepted by the validation of the web form or of the
\* BLE characteristic has been armed, the timer is that many minutes times
\* 60,000,000 microseconds: nothing is lost in the 8-bit field or in the product.
C30_AcceptedIntervalIsArmed ==
  (pc = "SUSPENDED" /\ hist.requested >= 1) =>
    /\ hist.timerMinutes = hist.requested
    /\ hist.sleepTime = SleepTime(hist.requested)

====
